---- MODULE Spec2Model ----
(***************************************************************************)
(* Model of the payments engine (src/src/engine.rs, src/src/api.rs).       *)
(*                                                                         *)
(* The engine owns two hash maps, accounts and adjustments, and applies    *)
(* one Transaction at a time through Engine::apply.  Currency is f64; it   *)
(* is modelled by a small binary floating-point format with the same       *)
(* structure (sign, MantBits-bit mantissa, exponent up to MaxExp,          *)
(* round-to-nearest-even, overflow to infinity, NaN, negative zero).       *)
(***************************************************************************)
EXTENDS Integers, FiniteSets, Sequences, TLC

(***************************************************************************)
(* Bounds                                                                  *)
(***************************************************************************)
MaxTx == 2
MaxClient == 2
MantBits == 2
MaxExp == 1

TransactionIds == 1..MaxTx
ClientIds == 1..MaxClient

(***************************************************************************)
(* Currency (api.rs: pub type Currency = f64)                              *)
(***************************************************************************)
RECURSIVE Pow2(_)
Pow2(n) == IF n = 0 THEN 1 ELSE 2 * Pow2(n - 1)

MaxFinite == (Pow2(MantBits) - 1) * Pow2(MaxExp)

Fin(n) == [k |-> "fin", v |-> n]
NegZero == [k |-> "negzero", v |-> 0]
PInf == [k |-> "inf", v |-> 1]
NInf == [k |-> "inf", v |-> -1]
NaN == [k |-> "nan", v |-> 0]
None == [k |-> "none", v |-> 0]

Abs(n) == IF n < 0 THEN -n ELSE n

\* The finite values of the format: +-m * 2^e with m < 2^MantBits, e <= MaxExp.
Representable ==
    {s * m * Pow2(e) : s \in {-1, 1}, m \in 0..(Pow2(MantBits) - 1), e \in 0..MaxExp}

FiniteCurrency == {Fin(n) : n \in Representable} \cup {NegZero}
Currency == FiniteCurrency \cup {PInf, NInf, NaN}

\* Option<Currency> as carried by a Transaction.
OptionCurrency == Currency \cup {None}

\* The amounts the input records carry: absent, the non-finite values, both
\* zeros, the smallest unit with either sign and the largest finite value.
InputAmounts ==
    {None, NaN, PInf, NInf, NegZero, Fin(0), Fin(1), Fin(-1), Fin(MaxFinite)}

\* f64::is_finite
IsFinite(x) == x.k \in {"fin", "negzero"}

\* The real number a finite value denotes (-0.0 denotes 0).
Num(x) == x.v

\* x < 0.0 (false for NaN and for both zeros)
LtZero(x) == x.k \in {"fin", "inf"} /\ x.v < 0

\* f64 ==  (NaN differs from everything, -0.0 == 0.0)
FEq(x, y) ==
    /\ x.k # "nan" /\ y.k # "nan"
    /\ IF IsFinite(x) /\ IsFinite(y) THEN Num(x) = Num(y) ELSE x = y

\* Rounding of a non-negative integer to the format, ties to even; a result
\* above MaxFinite overflows to infinity.
RoundExp(n) ==
    CHOOSE e \in 0..(MaxExp + 2) :
        /\ n \div Pow2(e) < Pow2(MantBits)
        /\ (e = 0 \/ n \div Pow2(e - 1) >= Pow2(MantBits))

\* With q the mantissa n \div 2^e and r the remainder cut off: round up when
\* r is above half a unit in the last place, or is half and q is odd.
RoundsUp(q, r, e) == 2 * r > Pow2(e) \/ (2 * r = Pow2(e) /\ q % 2 = 1)

RoundAt(n, e) ==
    (IF RoundsUp(n \div Pow2(e), n % Pow2(e), e)
     THEN (n \div Pow2(e)) + 1 ELSE n \div Pow2(e)) * Pow2(e)

RoundMag(n) == RoundAt(n, RoundExp(n))

\* The value of sign and magnitude m, infinite when m is above MaxFinite.
Signed(negative, m) ==
    IF m > MaxFinite THEN (IF negative THEN NInf ELSE PInf)
    ELSE Fin(IF negative THEN -m ELSE m)

Round(n) == Signed(n < 0, RoundMag(Abs(n)))

\* f64::neg
FNeg(x) ==
    CASE x.k = "fin" -> (IF x.v = 0 THEN NegZero ELSE Fin(-x.v))
      [] x.k = "negzero" -> Fin(0)
      [] x.k = "inf" -> [k |-> "inf", v |-> -x.v]
      [] OTHER -> x

\* f64 addition
FAdd(x, y) ==
    CASE x.k = "nan" \/ y.k = "nan" -> NaN
      [] x.k = "inf" /\ y.k = "inf" -> (IF x.v = y.v THEN x ELSE NaN)
      [] x.k = "inf" -> x
      [] y.k = "inf" -> y
      [] x.k = "negzero" /\ y.k = "negzero" -> NegZero
      [] OTHER -> Round(Num(x) + Num(y))

\* f64 subtraction: x - y is x + (-y)
FSub(x, y) == FAdd(x, FNeg(y))

(***************************************************************************)
(* Records (engine.rs, api.rs)                                             *)
(***************************************************************************)
Operations == {"Deposit", "Withdrawal", "Dispute", "Resolve", "Chargeback"}

\* The input records: struct Transaction.
Transactions == [id : TransactionIds, operation : Operations,
                 client_id : ClientIds, amount : InputAmounts]

\* #[derive(Default)] struct Account
DefaultAccount == [is_frozen |-> FALSE, balance |-> Fin(0), disputing |-> Fin(0)]

Ok == "ok"
ErrFrozen == "transaction attempt on frozen account"
ErrInvalid == "invalid transaction"
ErrBalance == "transaction invalidated client balance"
ErrDisputing == "transaction invalidated client dispute balance"
ErrDisputeState == "disputing an invalid transaction"
ErrResolveState == "resolving a transaction not under dispute"
ErrChargebackState == "invalidating a transaction not under dispute"
ErrMissing == "transaction amount missing"
ErrAmount == "invalid transaction amount"
ErrExists == "transaction already exists"
ErrNoRef == "transaction reference does not exist"
ErrMismatch == "transaction reference client-mismatch"
Panic == "transaction exists without an account"

VARIABLES accounts, adjustments, last

vars == <<accounts, adjustments, last>>

(***************************************************************************)
(* The closures handed to AccountTransaction::apply and to                 *)
(* insert_transaction.  A closure is named by a tag; UpdateTx and          *)
(* ToAccredit run the closure a tag names.  A closure over the private     *)
(* copy tx returns its result and the updated copy.                        *)
(***************************************************************************)
InsertTx(tx) ==
    [res |-> Ok, tx |-> [tx EXCEPT !.balance = FAdd(tx.balance, tx.amount)]]

\* DisputeTx that moves the amount and leaves the adjustment Valid.
DisputeTxKeepsState(tx) ==
    IF tx.state # "Valid" THEN [res |-> ErrDisputeState, tx |-> tx]
    ELSE [res |-> Ok,
          tx |-> [tx EXCEPT !.balance = FSub(tx.balance, tx.amount),
                            !.disputing = FAdd(tx.disputing, tx.amount)]]

\* DisputeTx that holds the amount without taking it from the balance.
DisputeTxKeepsBalance(tx) ==
    IF tx.state # "Valid" THEN [res |-> ErrDisputeState, tx |-> tx]
    ELSE [res |-> Ok,
          tx |-> [tx EXCEPT !.disputing = FAdd(tx.disputing, tx.amount),
                            !.state = "UnderDispute"]]

DisputeTx(tx) ==
    IF tx.state # "Valid" THEN [res |-> ErrDisputeState, tx |-> tx]
    ELSE [res |-> Ok,
          tx |-> [tx EXCEPT !.balance = FSub(tx.balance, tx.amount),
                            !.disputing = FAdd(tx.disputing, tx.amount),
                            !.state = "UnderDispute"]]

\* ResolveTx that returns the amount to the balance and keeps it held.
ResolveTxKeepsDisputing(tx) ==
    IF tx.state # "UnderDispute" THEN [res |-> ErrResolveState, tx |-> tx]
    ELSE [res |-> Ok,
          tx |-> [tx EXCEPT !.balance = FAdd(tx.balance, tx.amount),
                            !.state = "Valid"]]

\* ResolveTx without the check of the adjustment's state.
ResolveTxAnyState(tx) ==
    [res |-> Ok,
     tx |-> [tx EXCEPT !.disputing = FSub(tx.disputing, tx.amount),
                       !.balance = FAdd(tx.balance, tx.amount),
                       !.state = "Valid"]]

ResolveTx(tx) ==
    IF tx.state # "UnderDispute" THEN [res |-> ErrResolveState, tx |-> tx]
    ELSE [res |-> Ok,
          tx |-> [tx EXCEPT !.disputing = FSub(tx.disputing, tx.amount),
                            !.balance = FAdd(tx.balance, tx.amount),
                            !.state = "Valid"]]

\* ChargebackTx without the check that the adjustment is under dispute.
ChargebackTxAnyState(tx) ==
    [res |-> Ok,
     tx |-> [tx EXCEPT !.disputing = FSub(tx.disputing, tx.amount),
                       !.state = "Invalid"]]

\* ChargebackTx that returns the held amount to the balance, as a resolve
\* does.
ChargebackTxRefunds(tx) ==
    IF tx.state # "UnderDispute" THEN [res |-> ErrChargebackState, tx |-> tx]
    ELSE [res |-> Ok,
          tx |-> [tx EXCEPT !.disputing = FSub(tx.disputing, tx.amount),
                            !.balance = FAdd(tx.balance, tx.amount),
                            !.state = "Invalid"]]

ChargebackTx(tx) ==
    IF tx.state # "UnderDispute" THEN [res |-> ErrChargebackState, tx |-> tx]
    ELSE [res |-> Ok,
          tx |-> [tx EXCEPT !.disputing = FSub(tx.disputing, tx.amount),
                            !.state = "Invalid"]]

UpdateTx(update_tx, tx) ==
    CASE update_tx = "Insert" -> InsertTx(tx)
      [] update_tx = "Dispute" -> DisputeTx(tx)
      [] update_tx = "Resolve" -> ResolveTx(tx)
      [] update_tx = "Chargeback" -> ChargebackTx(tx)

\* ToAccredit with a withdrawal credited like a deposit.
ToAccreditNoNeg(to_accredit, amount) == amount

ToAccredit(to_accredit, amount) ==
    CASE to_accredit = "Deposit" -> amount
      [] to_accredit = "Withdrawal" -> FNeg(amount)

(***************************************************************************)
(* AccountTransaction::apply                                               *)
(***************************************************************************)
\* Precheck without the frozen-account check.
PrecheckNoFrozen(account, adjustment) ==
    IF adjustment.state = "Invalid" THEN ErrInvalid ELSE Ok

\* Precheck with the two checks in the other order.
PrecheckInvalidFirst(account, adjustment) ==
    IF adjustment.state = "Invalid" THEN ErrInvalid
    ELSE IF account.is_frozen THEN ErrFrozen
    ELSE Ok

\* The checks made before the closure runs.
Precheck(account, adjustment) ==
    IF account.is_frozen THEN ErrFrozen
    ELSE IF adjustment.state = "Invalid" THEN ErrInvalid
    ELSE Ok

\* The private copy the closure works on.
NewTx(account, adjustment) ==
    [amount |-> adjustment.amount,
     balance |-> account.balance,
     disputing |-> account.disputing,
     state |-> adjustment.state]

\* Validate without the check that the balance is not negative.
ValidateNoNegative(tx) ==
    IF ~IsFinite(tx.balance) THEN ErrBalance
    ELSE IF ~IsFinite(tx.disputing) THEN ErrDisputing
    ELSE Ok

\* The checks made on the candidate the closure produced.
Validate(tx) ==
    IF ~IsFinite(tx.balance) \/ LtZero(tx.balance) THEN ErrBalance
    ELSE IF ~IsFinite(tx.disputing) THEN ErrDisputing
    ELSE Ok

\* Commit that keeps the account's frozen flag as it was.
CommitKeepsFrozen(account, adjustment, tx) ==
    [res |-> Ok,
     account |-> [is_frozen |-> account.is_frozen,
                  balance |-> tx.balance,
                  disputing |-> tx.disputing],
     adjustment |-> [adjustment EXCEPT !.state = tx.state]]

\* The commit of an accepted candidate.
Commit(account, adjustment, tx) ==
    [res |-> Ok,
     account |-> [is_frozen |-> (tx.state = "Invalid"),
                  balance |-> tx.balance,
                  disputing |-> tx.disputing],
     adjustment |-> [adjustment EXCEPT !.state = tx.state]]

\* An early return of apply: the error, with account and adjustment untouched.
Rejected(account, adjustment, e) ==
    [res |-> e, account |-> account, adjustment |-> adjustment]

\* What apply does with upd, the closure's result and candidate.
Finish(account, adjustment, upd) ==
    IF upd.res # Ok THEN Rejected(account, adjustment, upd.res)
    ELSE IF Validate(upd.tx) # Ok
         THEN Rejected(account, adjustment, Validate(upd.tx))
    ELSE Commit(account, adjustment, upd.tx)

AccountTransactionApply(account, adjustment, update_tx) ==
    IF Precheck(account, adjustment) # Ok
    THEN Rejected(account, adjustment, Precheck(account, adjustment))
    ELSE Finish(account, adjustment, UpdateTx(update_tx, NewTx(account, adjustment)))

(***************************************************************************)
(* Engine                                                                  *)
(***************************************************************************)
\* HashMap insert / overwrite of one key.
Put(map, key, value) ==
    [x \in (DOMAIN map) \cup {key} |-> IF x = key THEN value ELSE map[x]]

\* self.accounts.entry(account_id).or_default()
OrDefault(accs, account_id) ==
    IF account_id \in DOMAIN accs THEN accs ELSE Put(accs, account_id, DefaultAccount)

\* AmountError without the is_finite check.
AmountErrorNoFinite(amount) == IF amount = None THEN ErrMissing ELSE Ok

\* The validation of the amount a deposit or withdrawal carries.
AmountError(amount) ==
    IF amount = None THEN ErrMissing
    ELSE IF ~IsFinite(amount) THEN ErrAmount
    ELSE Ok

\* Occupied that never sees an existing entry: the insert overwrites it.
OccupiedNever(adjs, adjustment_id) == FALSE

\* match self.adjustments.entry(adjustment_id): Entry::Occupied
Occupied(adjs, adjustment_id) == adjustment_id \in DOMAIN adjs

\* The result of a call that returns e with the stores as given.
Returned(accs, adjs, e) == [res |-> e, accounts |-> accs, adjustments |-> adjs]

\* The Adjustment insert_transaction prepares.
NewAdjustment(transaction, to_accredit) ==
    [account_id |-> transaction.client_id,
     amount |-> ToAccredit(to_accredit, transaction.amount),
     state |-> "Valid"]

\* Inserted that drops an account left with nothing in it.
InsertedPrunesEmpty(accs1, adjs, transaction, r) ==
    IF r.res # Ok THEN Returned(accs1, adjs, r.res)
    ELSE IF r.account = DefaultAccount
    THEN Returned([c \in DOMAIN accs1 \ {transaction.client_id} |-> accs1[c]],
                  Put(adjs, transaction.id, r.adjustment), Ok)
    ELSE Returned(Put(accs1, transaction.client_id, r.account),
                  Put(adjs, transaction.id, r.adjustment), Ok)

\* Inserted with the adjustment put in the ledger before the outcome of the
\* validation is looked at.
InsertedCommitsFirst(accs1, adjs, transaction, r) ==
    IF r.res # Ok THEN Returned(accs1, Put(adjs, transaction.id, r.adjustment), r.res)
    ELSE Returned(Put(accs1, transaction.client_id, r.account),
                  Put(adjs, transaction.id, r.adjustment), Ok)

\* The end of insert_transaction, r being what AccountTransaction::apply
\* returned: an error is passed on, a success inserts the adjustment.
Inserted(accs1, adjs, transaction, r) ==
    IF r.res # Ok THEN Returned(accs1, adjs, r.res)
    ELSE Returned(Put(accs1, transaction.client_id, r.account),
                  Put(adjs, transaction.id, r.adjustment), Ok)

\* The Vacant branch, accs1 being the accounts after or_default().
InsertVacant(accs1, adjs, transaction, to_accredit) ==
    Inserted(accs1, adjs, transaction,
             AccountTransactionApply(accs1[transaction.client_id],
                                     NewAdjustment(transaction, to_accredit),
                                     "Insert"))

InsertTransaction(accs, adjs, transaction, to_accredit) ==
    IF AmountError(transaction.amount) # Ok
    THEN Returned(accs, adjs, AmountError(transaction.amount))
    ELSE IF Occupied(adjs, transaction.id) THEN Returned(accs, adjs, ErrExists)
    ELSE InsertVacant(OrDefault(accs, transaction.client_id), adjs, transaction,
                      to_accredit)

\* RefError without the check of the adjustment's owner.
RefErrorNoOwner(adjs, transaction) ==
    IF transaction.id \notin DOMAIN adjs THEN ErrNoRef ELSE Ok

\* The checks update_transaction makes on the reference before it applies.
RefError(adjs, transaction) ==
    IF transaction.id \notin DOMAIN adjs THEN ErrNoRef
    ELSE IF adjs[transaction.id].account_id # transaction.client_id THEN ErrMismatch
    ELSE Ok

\* GetAdjustment that takes a usable amount from the transaction.
GetAdjustmentTakesAmount(adjs, transaction) ==
    IF IsFinite(transaction.amount)
    THEN [adjs[transaction.id] EXCEPT !.amount = transaction.amount]
    ELSE adjs[transaction.id]

\* self.adjustments.get_mut(&adjustment_id)
GetAdjustment(adjs, transaction) == adjs[transaction.id]

\* Updated that writes the account back to every entry of the store.
UpdatedAllAccounts(accs, adjs, transaction, r) ==
    Returned([c \in DOMAIN accs |-> r.account],
             Put(adjs, transaction.id, r.adjustment), r.res)

\* The end of update_transaction, r being what AccountTransaction::apply
\* returned after working on the account and the adjustment in place.
Updated(accs, adjs, transaction, r) ==
    Returned(Put(accs, transaction.client_id, r.account),
             Put(adjs, transaction.id, r.adjustment), r.res)

UpdateTransaction(accs, adjs, transaction, update_tx) ==
    IF RefError(adjs, transaction) # Ok
    THEN Returned(accs, adjs, RefError(adjs, transaction))
    ELSE IF transaction.client_id \notin DOMAIN accs THEN Returned(accs, adjs, Panic)
    ELSE Updated(accs, adjs, transaction,
                 AccountTransactionApply(accs[transaction.client_id],
                                         GetAdjustment(adjs, transaction),
                                         update_tx))

\* Engine::apply
EngineApply(accs, adjs, transaction) ==
    IF transaction.operation \in {"Deposit", "Withdrawal"}
    THEN InsertTransaction(accs, adjs, transaction, transaction.operation)
    ELSE UpdateTransaction(accs, adjs, transaction, transaction.operation)

\* Engine::clients
Clients(accs) ==
    {[id |-> c,
      allocated |-> FAdd(accs[c].balance, accs[c].disputing),
      balance |-> accs[c].balance,
      under_dispute |-> accs[c].disputing,
      is_frozen |-> accs[c].is_frozen] : c \in DOMAIN accs}

(***************************************************************************)
(* State machine: main.rs calls engine.apply once per input record, in     *)
(* order, and carries on after an error.  last is the kind of the most     *)
(* recent record and the result apply returned for it.                     *)
(***************************************************************************)
EmptyMap == [x \in {} |-> 0]

\* Engine::new
Init ==
    /\ accounts = EmptyMap
    /\ adjustments = EmptyMap
    /\ last = [operation |-> "none", res |-> Ok]

TxOf(op, id, client, amount) ==
    [id |-> id, operation |-> op, client_id |-> client, amount |-> amount]

\* engine.apply(transaction) for a deposit record
Deposit ==
    \E id \in TransactionIds, c \in ClientIds, a \in InputAmounts :
        \E r \in {EngineApply(accounts, adjustments, TxOf("Deposit", id, c, a))} :
            /\ accounts' = r.accounts
            /\ adjustments' = r.adjustments
            /\ last' = [operation |-> "Deposit", res |-> r.res]

\* engine.apply(transaction) for a withdrawal record
Withdrawal ==
    \E id \in TransactionIds, c \in ClientIds, a \in InputAmounts :
        \E r \in {EngineApply(accounts, adjustments, TxOf("Withdrawal", id, c, a))} :
            /\ accounts' = r.accounts
            /\ adjustments' = r.adjustments
            /\ last' = [operation |-> "Withdrawal", res |-> r.res]

\* engine.apply(transaction) for a dispute record
Dispute ==
    \E id \in TransactionIds, c \in ClientIds, a \in InputAmounts :
        \E r \in {EngineApply(accounts, adjustments, TxOf("Dispute", id, c, a))} :
            /\ accounts' = r.accounts
            /\ adjustments' = r.adjustments
            /\ last' = [operation |-> "Dispute", res |-> r.res]

\* engine.apply(transaction) for a resolve record
Resolve ==
    \E id \in TransactionIds, c \in ClientIds, a \in InputAmounts :
        \E r \in {EngineApply(accounts, adjustments, TxOf("Resolve", id, c, a))} :
            /\ accounts' = r.accounts
            /\ adjustments' = r.adjustments
            /\ last' = [operation |-> "Resolve", res |-> r.res]

\* engine.apply(transaction) for a chargeback record
Chargeback ==
    \E id \in TransactionIds, c \in ClientIds, a \in InputAmounts :
        \E r \in {EngineApply(accounts, adjustments, TxOf("Chargeback", id, c, a))} :
            /\ accounts' = r.accounts
            /\ adjustments' = r.adjustments
            /\ last' = [operation |-> "Chargeback", res |-> r.res]

Next == Deposit \/ Withdrawal \/ Dispute \/ Resolve \/ Chargeback

Spec == Init /\ [][Next]_vars

(***************************************************************************)
(* A longer ledger for a single client: one more transaction id, with      *)
(* amounts of one unit and of the largest finite value, so that three      *)
(* adjustments of opposite signs can be under dispute together.            *)
(***************************************************************************)
WideIds == 1..(MaxTx + 1)
WideClient == 1
WideAmounts == {Fin(1), Fin(MaxFinite)}
WideTransactions ==
    [id : WideIds, operation : Operations, client_id : ClientIds, amount : InputAmounts]

\* engine.apply(transaction) for a deposit record
DepositWide ==
    \E id \in WideIds, a \in WideAmounts :
        \E r \in {EngineApply(accounts, adjustments, TxOf("Deposit", id, WideClient, a))} :
            /\ accounts' = r.accounts
            /\ adjustments' = r.adjustments
            /\ last' = [operation |-> "Deposit", res |-> r.res]

\* engine.apply(transaction) for a withdrawal record
WithdrawalWide ==
    \E id \in WideIds, a \in WideAmounts :
        \E r \in {EngineApply(accounts, adjustments, TxOf("Withdrawal", id, WideClient, a))} :
            /\ accounts' = r.accounts
            /\ adjustments' = r.adjustments
            /\ last' = [operation |-> "Withdrawal", res |-> r.res]

\* engine.apply(transaction) for a dispute record
DisputeWide ==
    \E id \in WideIds :
        \E r \in {EngineApply(accounts, adjustments, TxOf("Dispute", id, WideClient, None))} :
            /\ accounts' = r.accounts
            /\ adjustments' = r.adjustments
            /\ last' = [operation |-> "Dispute", res |-> r.res]

\* engine.apply(transaction) for a resolve record
ResolveWide ==
    \E id \in WideIds :
        \E r \in {EngineApply(accounts, adjustments, TxOf("Resolve", id, WideClient, None))} :
            /\ accounts' = r.accounts
            /\ adjustments' = r.adjustments
            /\ last' = [operation |-> "Resolve", res |-> r.res]

\* engine.apply(transaction) for a chargeback record
ChargebackWide ==
    \E id \in WideIds :
        \E r \in {EngineApply(accounts, adjustments, TxOf("Chargeback", id, WideClient, None))} :
            /\ accounts' = r.accounts
            /\ adjustments' = r.adjustments
            /\ last' = [operation |-> "Chargeback", res |-> r.res]

NextWide == DepositWide \/ WithdrawalWide \/ DisputeWide \/ ResolveWide \/ ChargebackWide

SpecWide == Init /\ [][NextWide]_vars

(***************************************************************************)
(* Properties                                                              *)
(***************************************************************************)
\* The outcome of applying transaction t in the current state.
After(t) == EngineApply(accounts, adjustments, t)

\* t is rejected and leaves both stores exactly as they are.
RejectedUnchanged(t) ==
    \E r \in {After(t)} :
        /\ r.res # Ok
        /\ r.accounts = accounts
        /\ r.adjustments = adjustments

Frozen(c) == c \in DOMAIN accounts /\ accounts[c].is_frozen

\* C1: in every reachable state every account's balance is finite and not
\* negative, and every account's disputing value is finite.
C1_BalancesValid ==
    \A c \in DOMAIN accounts :
        /\ IsFinite(accounts[c].balance)
        /\ ~LtZero(accounts[c].balance)
        /\ IsFinite(accounts[c].disputing)

\* A dispute was just refused because the disputing value would overflow,
\* while an account holds the largest finite value in dispute.
C1_Witness ==
    /\ last.operation = "Dispute"
    /\ last.res = ErrDisputing
    /\ \E c \in DOMAIN accounts : accounts[c].disputing = Fin(MaxFinite)

\* C2: a frozen account stays frozen, and every transaction that names a
\* frozen client is rejected and changes no account and no adjustment.
C2_FrozenRejectsAll ==
    /\ [](\A t \in Transactions : Frozen(t.client_id) => RejectedUnchanged(t))
    /\ [][\A c \in ClientIds : Frozen(c) => Frozen(c)']_vars

\* A deposit was just refused because the account is frozen.
C2_Witness ==
    /\ last.operation = "Deposit"
    /\ last.res = ErrFrozen
    /\ \E c \in ClientIds : Frozen(c)

\* C3: a call that returns an error leaves every account and every
\* adjustment as it was before the call.
C3_RejectedHasNoEffect ==
    [][last'.res # Ok => (accounts' = accounts /\ adjustments' = adjustments)]_vars

\* C4: an id in the ledger stays there with its owner and amount, and every
\* deposit or withdrawal that carries an id already in the ledger is rejected
\* and changes neither store, whatever its amount or client.
C4_UniqueTransactionIds ==
    /\ [](\A t \in Transactions :
            (t.operation \in {"Deposit", "Withdrawal"} /\ t.id \in DOMAIN adjustments)
                => RejectedUnchanged(t))
    /\ [][\A id \in DOMAIN adjustments :
            /\ id \in DOMAIN adjustments'
            /\ adjustments'[id].account_id = adjustments[id].account_id
            /\ adjustments'[id].amount = adjustments[id].amount]_vars

\* A deposit was just refused because its id is in the ledger.
C4_Witness ==
    /\ last.operation = "Deposit"
    /\ last.res = ErrExists
    /\ adjustments # EmptyMap

\* The change of adjustment id's state made by a step, if any, is one of the
\* three lifecycle edges, made by the accepted operation of that edge.
LifecycleStep(id) ==
    \/ adjustments'[id].state = adjustments[id].state
    \/ /\ last'.res = Ok
       /\ \/ /\ adjustments[id].state = "Valid"
             /\ adjustments'[id].state = "UnderDispute"
             /\ last'.operation = "Dispute"
          \/ /\ adjustments[id].state = "UnderDispute"
             /\ adjustments'[id].state = "Valid"
             /\ last'.operation = "Resolve"
          \/ /\ adjustments[id].state = "UnderDispute"
             /\ adjustments'[id].state = "Invalid"
             /\ last'.operation = "Chargeback"

\* C5: an adjustment's state changes only Valid -> UnderDispute by an
\* accepted dispute, UnderDispute -> Valid by an accepted resolve and
\* UnderDispute -> Invalid by an accepted chargeback; Invalid never changes.
C5_Lifecycle ==
    [][\A id \in DOMAIN adjustments :
            /\ id \in DOMAIN adjustments'
            /\ LifecycleStep(id)
            /\ (adjustments[id].state = "Invalid" => adjustments'[id].state = "Invalid")]_vars

\* A resolve was just accepted while another adjustment is Invalid.
C5_Witness ==
    /\ last.operation = "Resolve"
    /\ last.res = Ok
    /\ \E id \in DOMAIN adjustments : adjustments[id].state = "Invalid"
    /\ \E id \in DOMAIN adjustments : adjustments[id].state = "Valid"

\* Some adjustment of client c is Invalid.
HasInvalid(adjs, c) ==
    \E id \in DOMAIN adjs : adjs[id].account_id = c /\ adjs[id].state = "Invalid"

\* C6: an account is frozen exactly when one of its adjustments is Invalid;
\* it becomes frozen in the step that moves one of its adjustments to
\* Invalid, and a frozen account stays frozen.
C6_FrozenIffInvalid ==
    /\ [](\A c \in ClientIds : Frozen(c) <=> HasInvalid(adjustments, c))
    /\ [][\A c \in ClientIds :
            /\ (Frozen(c) => Frozen(c)')
            /\ (~Frozen(c) /\ Frozen(c)' =>
                    \E id \in DOMAIN adjustments :
                        /\ adjustments[id].account_id = c
                        /\ adjustments[id].state # "Invalid"
                        /\ adjustments'[id].state = "Invalid")]_vars

\* A chargeback was just accepted and its account is frozen.
C6_Witness ==
    /\ last.operation = "Chargeback"
    /\ last.res = Ok
    /\ \E c \in ClientIds : Frozen(c) /\ HasInvalid(adjustments, c)

UpdateOperations == {"Dispute", "Resolve", "Chargeback"}
InsertOperations == {"Deposit", "Withdrawal"}

\* The reference of t is unknown or names an adjustment of another client.
BadReference(t) ==
    \/ t.id \notin DOMAIN adjustments
    \/ adjustments[t.id].account_id # t.client_id

\* C7: a dispute, resolve or chargeback whose id is not in the ledger, or is
\* in the ledger under another client, is rejected and changes neither
\* store; no transaction changes an adjustment owned by a client other than
\* the one it names.
C7_BadReferenceRejected ==
    \A t \in Transactions :
        /\ (t.operation \in UpdateOperations /\ BadReference(t))
                => RejectedUnchanged(t)
        /\ \A id \in DOMAIN adjustments :
                adjustments[id].account_id # t.client_id
                    => /\ id \in DOMAIN After(t).adjustments
                       /\ After(t).adjustments[id] = adjustments[id]

\* A dispute naming the wrong client was just refused.
C7_Witness ==
    /\ last.operation = "Dispute"
    /\ last.res = ErrMismatch
    /\ \E id \in DOMAIN adjustments : adjustments[id].state = "Valid"

\* The disputing value an accepted t leaves, computed from the stored amount.
DisputingAfter(t) ==
    IF t.operation = "Dispute"
    THEN FAdd(accounts[t.client_id].disputing, adjustments[t.id].amount)
    ELSE FSub(accounts[t.client_id].disputing, adjustments[t.id].amount)

\* C8: the result and the resulting stores of a dispute, resolve or
\* chargeback are the same whatever amount the transaction carries, and an
\* accepted one moves disputing by the adjustment's stored amount.
C8_AmountIgnored ==
    \A t \in Transactions :
        t.operation \in UpdateOperations =>
            /\ After(t) = After([t EXCEPT !.amount = None])
            /\ After(t).res = Ok =>
                    After(t).accounts[t.client_id].disputing = DisputingAfter(t)

\* A dispute of a withdrawal was just accepted: disputing is negative.
C8_Witness ==
    /\ last.operation = "Dispute"
    /\ last.res = Ok
    /\ \E c \in DOMAIN accounts : LtZero(accounts[c].disputing)

\* The balance of client c, zero when the account does not exist yet.
Balance(c) == IF c \in DOMAIN accounts THEN accounts[c].balance ELSE Fin(0)

Disputing(c) == IF c \in DOMAIN accounts THEN accounts[c].disputing ELSE Fin(0)

\* t is a deposit or withdrawal that passes the amount, id and frozen checks.
FreshInsert(t) ==
    /\ t.operation \in InsertOperations
    /\ IsFinite(t.amount)
    /\ t.id \notin DOMAIN adjustments
    /\ ~Frozen(t.client_id)

\* C9: a withdrawal of v with a fresh id on a non-frozen account of balance
\* b is rejected when v > b, the balance staying b, and is accepted when
\* 0 <= v <= b, the balance becoming b - v (as f64 computes it); disputing
\* plays no part and is unchanged.
C9_WithdrawalBounds ==
    \A t \in Transactions :
        (t.operation = "Withdrawal" /\ FreshInsert(t)) =>
            \E r \in {After(t)}, b \in {Num(Balance(t.client_id))}, v \in {Num(t.amount)} :
                /\ v > b => /\ r.res # Ok
                            /\ r.accounts[t.client_id].balance = Balance(t.client_id)
                /\ (0 <= v /\ v <= b) =>
                            /\ r.res = Ok
                            /\ r.accounts[t.client_id].balance = Round(b - v)
                /\ r.accounts[t.client_id].disputing = Disputing(t.client_id)

\* A withdrawal was just refused for lack of funds on the only account,
\* which holds more in dispute than it has available.
C9_Witness ==
    /\ last.operation = "Withdrawal"
    /\ last.res = ErrBalance
    /\ DOMAIN accounts = {1}
    /\ ~accounts[1].is_frozen
    /\ Num(accounts[1].disputing) > Num(accounts[1].balance)

\* C10: a deposit or withdrawal whose amount is absent, NaN or infinite is
\* rejected by the amount check and changes neither store; one whose amount
\* is zero or negative zero, with a fresh id on a non-frozen account, is
\* accepted, records its adjustment and leaves the balance as it was.
C10_AmountValidation ==
    \A t \in Transactions :
        t.operation \in InsertOperations =>
            /\ t.amount \in {None, NaN, PInf, NInf} =>
                    /\ After(t).res \in {ErrMissing, ErrAmount}
                    /\ RejectedUnchanged(t)
            /\ (t.amount \in {Fin(0), NegZero} /\ FreshInsert(t)) =>
                    \E r \in {After(t)} :
                        /\ r.res = Ok
                        /\ t.id \in DOMAIN r.adjustments
                        /\ r.adjustments[t.id].account_id = t.client_id
                        /\ r.accounts[t.client_id].balance = Balance(t.client_id)

\* A non-finite amount was just refused and the ledger holds a zero
\* withdrawal or deposit.
C10_Witness ==
    /\ last.res = ErrAmount
    /\ \E id \in DOMAIN adjustments : adjustments[id].amount = NegZero
    /\ \E id \in DOMAIN adjustments : adjustments[id].amount = Fin(0)

\* t references an adjustment of its own client that is in state st, and
\* the client's account is not frozen.
Refers(t, st) ==
    /\ t.id \in DOMAIN adjustments
    /\ adjustments[t.id].account_id = t.client_id
    /\ adjustments[t.id].state = st
    /\ t.client_id \in DOMAIN accounts
    /\ ~accounts[t.client_id].is_frozen

\* The stored amount t refers to, and the account it names.
Amount(t) == adjustments[t.id].amount
Account(t) == accounts[t.client_id]

\* The account and the adjustment of t in the outcome r.
AccountIn(r, t) == r.accounts[t.client_id]
StateIn(r, t) == r.adjustments[t.id].state

\* The real-number total of an account.
Total(account) == Num(account.balance) + Num(account.disputing)

\* A finite value that is not negative.
Valid(x) == IsFinite(x) /\ ~LtZero(x)

\* C11 as stated: a dispute of a Valid adjustment of amount a is accepted
\* exactly when balance - a >= 0; accepted, it moves a from balance to
\* disputing, a withdrawal's dispute raising the balance and making
\* disputing negative, and the total is unchanged.
C11_DisputeAsStated ==
    \A t \in Transactions :
        (t.operation = "Dispute" /\ Refers(t, "Valid")) =>
            \E r \in {After(t)} :
                /\ r.res = Ok <=> Num(Account(t).balance) - Num(Amount(t)) >= 0
                /\ r.res # Ok => RejectedUnchanged(t)
                /\ r.res = Ok =>
                    /\ AccountIn(r, t).balance = FSub(Account(t).balance, Amount(t))
                    /\ AccountIn(r, t).disputing = FAdd(Account(t).disputing, Amount(t))
                    /\ StateIn(r, t) = "UnderDispute"
                    /\ LtZero(Amount(t)) =>
                            /\ Num(AccountIn(r, t).balance) > Num(Account(t).balance)
                            /\ LtZero(AccountIn(r, t).disputing)
                    /\ Total(AccountIn(r, t)) = Total(Account(t))

\* The dispute of t computes both of its results without rounding.
ExactDispute(t) ==
    /\ Round(Num(Account(t).balance) - Num(Amount(t)))
            = Fin(Num(Account(t).balance) - Num(Amount(t)))
    /\ Round(Num(Account(t).disputing) + Num(Amount(t)))
            = Fin(Num(Account(t).disputing) + Num(Amount(t)))

\* C11 (amended): a dispute of a Valid adjustment of amount a is accepted
\* exactly when the f64 results balance - a and disputing + a are finite and
\* balance - a is not negative, and is otherwise rejected with nothing
\* changed; accepted, it sets balance and disputing to those results and the
\* state to UnderDispute, a withdrawal's dispute not lowering the balance
\* and not raising disputing, and the total is unchanged when neither
\* result was rounded.
C11_Dispute ==
    \A t \in Transactions :
        (t.operation = "Dispute" /\ Refers(t, "Valid")) =>
            \E r \in {After(t)},
               cb \in {Round(Num(Account(t).balance) - Num(Amount(t)))},
               cd \in {Round(Num(Account(t).disputing) + Num(Amount(t)))} :
                /\ r.res = Ok <=> (Valid(cb) /\ IsFinite(cd))
                /\ r.res # Ok => RejectedUnchanged(t)
                /\ r.res = Ok =>
                    /\ AccountIn(r, t).balance = cb
                    /\ AccountIn(r, t).disputing = cd
                    /\ ~AccountIn(r, t).is_frozen
                    /\ StateIn(r, t) = "UnderDispute"
                    /\ LtZero(Amount(t)) =>
                            /\ Num(cb) >= Num(Account(t).balance)
                            /\ Num(cd) <= Num(Account(t).disputing)
                    /\ ExactDispute(t) => Total(AccountIn(r, t)) = Total(Account(t))

\* A dispute was just refused because it would overdraw the balance, and
\* another was accepted before it.
C11_Witness ==
    /\ last.operation = "Dispute"
    /\ last.res = ErrBalance
    /\ \E id \in DOMAIN adjustments : adjustments[id].state = "Valid"
    /\ \E id \in DOMAIN adjustments : adjustments[id].state = "UnderDispute"

\* t references an adjustment that is not in state st.
RefersNot(t, st) ==
    /\ t.id \in DOMAIN adjustments
    /\ adjustments[t.id].state # st

\* C12 as stated: a resolve of an UnderDispute adjustment of amount a is
\* accepted and moves a from disputing back to the balance, the state
\* becoming Valid; a resolve of any other adjustment is rejected.
C12_ResolveAsStated ==
    \A t \in Transactions :
        t.operation = "Resolve" =>
            \E r \in {After(t)} :
                /\ Refers(t, "UnderDispute") =>
                    /\ r.res = Ok
                    /\ AccountIn(r, t).disputing = FSub(Account(t).disputing, Amount(t))
                    /\ AccountIn(r, t).balance = FAdd(Account(t).balance, Amount(t))
                    /\ StateIn(r, t) = "Valid"
                /\ RefersNot(t, "UnderDispute") => r.res # Ok

\* C12 (amended): a resolve of an UnderDispute adjustment of amount a is
\* accepted exactly when the f64 results balance + a and disputing - a are
\* finite and balance + a is not negative, and is otherwise rejected with
\* nothing changed; accepted, it sets balance and disputing to those results
\* and the state to Valid; a resolve of any other adjustment is rejected.
C12_Resolve ==
    \A t \in Transactions :
        t.operation = "Resolve" =>
            \E r \in {After(t)} :
                /\ Refers(t, "UnderDispute") =>
                    \E cb \in {Round(Num(Account(t).balance) + Num(Amount(t)))},
                       cd \in {Round(Num(Account(t).disputing) - Num(Amount(t)))} :
                        /\ r.res = Ok <=> (Valid(cb) /\ IsFinite(cd))
                        /\ r.res # Ok => RejectedUnchanged(t)
                        /\ r.res = Ok =>
                            /\ AccountIn(r, t).balance = cb
                            /\ AccountIn(r, t).disputing = cd
                            /\ ~AccountIn(r, t).is_frozen
                            /\ StateIn(r, t) = "Valid"
                /\ RefersNot(t, "UnderDispute") =>
                    /\ r.res # Ok
                    /\ r.adjustments = adjustments

\* A resolve of an adjustment under dispute was just refused because the
\* balance would become negative.
C12_Witness ==
    /\ last.operation = "Resolve"
    /\ last.res = ErrBalance
    /\ \E id \in DOMAIN adjustments :
            /\ adjustments[id].state = "UnderDispute"
            /\ LtZero(adjustments[id].amount)

\* C13 as stated: a chargeback of an UnderDispute adjustment of amount a
\* (matching client, account not frozen) is always accepted; it leaves the
\* balance unchanged, sets disputing to disputing - a, the state to Invalid
\* and the account to frozen; a chargeback of any other adjustment is
\* rejected.
C13_ChargebackAsStated ==
    \A t \in WideTransactions :
        t.operation = "Chargeback" =>
            \E r \in {After(t)} :
                /\ Refers(t, "UnderDispute") =>
                    /\ r.res = Ok
                    /\ AccountIn(r, t).balance = Account(t).balance
                    /\ AccountIn(r, t).disputing
                            = Round(Num(Account(t).disputing) - Num(Amount(t)))
                    /\ AccountIn(r, t).is_frozen
                    /\ StateIn(r, t) = "Invalid"
                /\ RefersNot(t, "UnderDispute") => r.res # Ok

\* C13 (amended): a chargeback of an UnderDispute adjustment of amount a
\* (matching client, account not frozen) is accepted exactly when the f64
\* result disputing - a is finite, and is otherwise rejected with nothing
\* changed; accepted, it leaves the balance unchanged, sets disputing to
\* that result, the state to Invalid and the account to frozen; a
\* chargeback of any other adjustment is rejected.
C13_Chargeback ==
    \A t \in WideTransactions :
        t.operation = "Chargeback" =>
            \E r \in {After(t)} :
                /\ Refers(t, "UnderDispute") =>
                    \E cd \in {Round(Num(Account(t).disputing) - Num(Amount(t)))} :
                        /\ r.res = Ok <=> IsFinite(cd)
                        /\ r.res # Ok => RejectedUnchanged(t)
                        /\ r.res = Ok =>
                            /\ AccountIn(r, t).balance = Account(t).balance
                            /\ AccountIn(r, t).disputing = cd
                            /\ AccountIn(r, t).is_frozen
                            /\ StateIn(r, t) = "Invalid"
                /\ RefersNot(t, "UnderDispute") =>
                    /\ r.res # Ok
                    /\ r.adjustments = adjustments

\* A chargeback of an adjustment under dispute was just refused because the
\* disputing value would overflow.
C13_Witness ==
    /\ last.operation = "Chargeback"
    /\ last.res = ErrDisputing
    /\ \E id \in DOMAIN adjustments : adjustments[id].state = "UnderDispute"

\* C14: a rejected deposit or withdrawal creates nothing: the set of client
\* ids in the account store and the set of transaction ids in the ledger
\* are the same after the rejected call as before it, also when the
\* transaction names a client not seen before.
C14_RejectedInsertCreatesNothing ==
    [][(last'.operation \in InsertOperations /\ last'.res # Ok) =>
            /\ DOMAIN accounts' = DOMAIN accounts
            /\ DOMAIN adjustments' = DOMAIN adjustments]_vars

\* The resolve record for the adjustment that t names.
ResolveOf(t) == TxOf("Resolve", t.id, t.client_id, t.amount)

\* The outcome of the resolve of t applied to the outcome r of a call.
ThenResolve(r, t) == EngineApply(r.accounts, r.adjustments, ResolveOf(t))

\* The outcome of t applied to the outcome r of a call.
Then(r, t) == EngineApply(r.accounts, r.adjustments, t)

\* C15 as stated: if a dispute of t is accepted, the resolve of t applied
\* next is accepted and restores the account's balance, disputing value and
\* frozen flag and the adjustment's state to their values before the
\* dispute, and t can then be disputed again.
C15_RoundTripAsStated ==
    \A t \in Transactions :
        (t.operation = "Dispute" /\ After(t).res = Ok) =>
            \E r \in {ThenResolve(After(t), t)} :
                /\ r.res = Ok
                /\ AccountIn(r, t) = Account(t)
                /\ StateIn(r, t) = adjustments[t.id].state
                /\ Then(r, t).res = Ok

\* C15 (amended): if a dispute of t is accepted, the resolve of t applied
\* next is accepted and restores the account's frozen flag and the
\* adjustment's state, and also the account's balance and disputing value
\* whenever the dispute computed both without rounding; t can then be
\* disputed again.
C15_RoundTrip ==
    \A t \in Transactions :
        (t.operation = "Dispute" /\ After(t).res = Ok) =>
            \E r \in {ThenResolve(After(t), t)} :
                /\ r.res = Ok
                /\ AccountIn(r, t).is_frozen = Account(t).is_frozen
                /\ r.adjustments = adjustments
                /\ ExactDispute(t) => r.accounts = accounts
                /\ Then(r, t).res = Ok

\* A dispute of a withdrawal was just resolved and nothing is under dispute.
C15_Witness ==
    /\ last.operation = "Resolve"
    /\ last.res = Ok
    /\ \E id \in DOMAIN adjustments :
            adjustments[id].state = "Valid" /\ LtZero(adjustments[id].amount)
    /\ \A id \in DOMAIN adjustments : adjustments[id].state # "UnderDispute"

\* After the rejected deposit or withdrawal t, with outcome r, its id is
\* still free: absent from the ledger, unknown to a dispute, and usable by
\* a deposit or withdrawal u, which fares as if t had never been sent and
\* is accepted when it is a zero deposit of a client that is not frozen.
IdStillFree(r, t) ==
    /\ t.id \notin DOMAIN r.adjustments
    /\ \A c \in ClientIds : Then(r, TxOf("Dispute", t.id, c, None)).res = ErrNoRef
    /\ \A u \in Transactions :
            (u.id = t.id /\ u.operation \in InsertOperations) =>
                /\ Then(r, u).res = After(u).res
                /\ (u.amount = Fin(0) /\ u.operation = "Deposit" /\ ~Frozen(u.client_id))
                        => Then(r, u).res = Ok

\* C16: a rejected deposit or withdrawal does not consume its transaction
\* id: after the rejection the id is still absent from the ledger, a dispute
\* naming it is rejected as an unknown reference, and a later valid deposit
\* or withdrawal with that id is accepted; an id enters the ledger only by
\* an accepted deposit or withdrawal.
C16_RejectedIdNotConsumed ==
    /\ [](\A t \in Transactions :
            (/\ t.operation \in InsertOperations
             /\ t.id \notin DOMAIN adjustments
             /\ After(t).res # Ok) => IdStillFree(After(t), t))
    /\ [][(DOMAIN adjustments' # DOMAIN adjustments) =>
            /\ last'.operation \in InsertOperations
            /\ last'.res = Ok]_vars

\* A withdrawal was just refused for lack of funds, its id is not in the
\* ledger, and another transaction of the same client is.
C16_Witness ==
    /\ last.operation = "Withdrawal"
    /\ last.res = ErrBalance
    /\ \E id \in TransactionIds : id \notin DOMAIN adjustments
    /\ \E id \in DOMAIN adjustments : Num(Balance(adjustments[id].account_id)) > 0

\* The balance of client c in the account store accs, zero when absent.
BalanceIn(accs, c) == IF c \in DOMAIN accs THEN Num(accs[c].balance) ELSE 0

\* C17: every adjustment created by an accepted deposit has a stored amount
\* that is not negative and the deposit does not lower its account's
\* balance; every adjustment created by an accepted withdrawal has a stored
\* amount that is not positive and the withdrawal does not raise the
\* balance; for any finite input amount.
C17_AmountSigns ==
    [][\A id \in DOMAIN adjustments' \ DOMAIN adjustments :
            \E c \in {adjustments'[id].account_id} :
                /\ last'.operation = "Deposit" =>
                        /\ Num(adjustments'[id].amount) >= 0
                        /\ BalanceIn(accounts', c) >= BalanceIn(accounts, c)
                /\ last'.operation = "Withdrawal" =>
                        /\ Num(adjustments'[id].amount) <= 0
                        /\ BalanceIn(accounts', c) <= BalanceIn(accounts, c)]_vars

\* C18: in every reachable state every adjustment names an account that is
\* in the account store, so that no call has run or can run into the
\* 'transaction exists without an account' panic of update_transaction.
C18_AdjustmentHasAccount ==
    /\ \A id \in DOMAIN adjustments : adjustments[id].account_id \in DOMAIN accounts
    /\ last.res # Panic
    /\ \A t \in Transactions : After(t).res # Panic

\* A dispute was just accepted (the account lookup of update_transaction
\* ran) while both clients own adjustments.
C18_Witness ==
    /\ last.operation = "Dispute"
    /\ last.res = Ok
    /\ \A c \in ClientIds : \E id \in DOMAIN adjustments : adjustments[id].account_id = c

\* Client c, its account (when it has one) and its adjustments are the same
\* in the outcome r as in the current state.
Untouched(r, c) ==
    /\ c \in DOMAIN r.accounts <=> c \in DOMAIN accounts
    /\ c \in DOMAIN accounts => r.accounts[c] = accounts[c]
    /\ \A id \in DOMAIN r.adjustments :
            r.adjustments[id].account_id = c =>
                /\ id \in DOMAIN adjustments
                /\ r.adjustments[id] = adjustments[id]
    /\ \A id \in DOMAIN adjustments :
            adjustments[id].account_id = c => id \in DOMAIN r.adjustments

\* C19: accounts are independent: a call that names client c, accepted or
\* rejected, changes neither the balance, disputing value or frozen flag of
\* any other account nor any adjustment of another client; and a frozen
\* account does not block the other clients: a zero deposit with a fresh id
\* by a client that is not frozen is accepted whatever accounts are frozen.
C19_AccountsIndependent ==
    \A t \in Transactions :
        /\ \A c \in ClientIds \ {t.client_id} : Untouched(After(t), c)
        /\ (/\ t.operation = "Deposit"
            /\ t.amount = Fin(0)
            /\ FreshInsert(t)
            /\ \E c \in ClientIds \ {t.client_id} : Frozen(c)) => After(t).res = Ok

\* A deposit was just accepted while another client's account is frozen by
\* a chargeback.
C19_Witness ==
    /\ last.operation = "Deposit"
    /\ last.res = Ok
    /\ \E c \in ClientIds :
            /\ Frozen(c)
            /\ \E d \in ClientIds \ {c} : Num(Balance(d)) > 0
            /\ \E id \in DOMAIN adjustments :
                    /\ adjustments[id].account_id = c
                    /\ adjustments[id].state = "Invalid"

\* The stored amount of adjustment id when it belongs to client c and is in
\* state st, and zero otherwise.
Term(adjs, id, c, st) ==
    IF adjs[id].account_id = c /\ adjs[id].state = st THEN Num(adjs[id].amount) ELSE 0

\* The exact sum of the stored amounts of the adjustments among ids that
\* belong to client c and are in state st.
RECURSIVE SumAmounts(_, _, _, _)
SumAmounts(adjs, ids, c, st) ==
    IF ids = {} THEN 0
    ELSE Term(adjs, CHOOSE id \in ids : TRUE, c, st)
            + SumAmounts(adjs, ids \ {CHOOSE id \in ids : TRUE}, c, st)

\* Every account's balance is the sum of its Valid adjustments and its
\* disputing value the sum of its adjustments under dispute, so that its
\* total is the sum of its adjustments that are not Invalid.
SumsMatch(accs, adjs) ==
    \A c \in DOMAIN accs :
        /\ Num(accs[c].balance) = SumAmounts(adjs, DOMAIN adjs, c, "Valid")
        /\ Num(accs[c].disputing) = SumAmounts(adjs, DOMAIN adjs, c, "UnderDispute")
        /\ Total(accs[c]) = SumAmounts(adjs, DOMAIN adjs, c, "Valid")
                                + SumAmounts(adjs, DOMAIN adjs, c, "UnderDispute")

\* The integer n is a value of the format: computing it involves no rounding.
Exact(n) == Round(n) = Fin(n)

\* The arithmetic of the accepted call t is exact.
ExactCall(t) ==
    CASE t.operation = "Deposit" -> Exact(BalanceIn(accounts, t.client_id) + Num(t.amount))
      [] t.operation = "Withdrawal" -> Exact(BalanceIn(accounts, t.client_id) - Num(t.amount))
      [] t.operation = "Dispute" -> ExactDispute(t)
      [] t.operation = "Resolve" ->
            /\ Exact(Num(Account(t).balance) + Num(Amount(t)))
            /\ Exact(Num(Account(t).disputing) - Num(Amount(t)))
      [] t.operation = "Chargeback" -> Exact(Num(Account(t).disputing) - Num(Amount(t)))

\* C20: with exact arithmetic, every account's balance equals the sum of the
\* stored amounts of its Valid adjustments and its disputing value the sum
\* of those of its adjustments under dispute (so its total is the sum over
\* its adjustments that are not Invalid): this holds of the new engine and
\* every call that is rejected, or accepted without rounding, preserves it.
C20_SumsOfAdjustments ==
    /\ (adjustments = EmptyMap /\ \A c \in DOMAIN accounts : accounts[c] = DefaultAccount)
            => SumsMatch(accounts, adjustments)
    /\ SumsMatch(accounts, adjustments) =>
            \A t \in Transactions :
                (After(t).res = Ok => ExactCall(t)) =>
                    SumsMatch(After(t).accounts, After(t).adjustments)

\* The sums match on an account that has one adjustment counted in its
\* balance and another counted in its disputing value, after an accepted
\* dispute.
C20_Witness ==
    /\ last.operation = "Dispute"
    /\ last.res = Ok
    /\ SumsMatch(accounts, adjustments)
    /\ \E c \in DOMAIN accounts :
            /\ Num(accounts[c].balance) > 0
            /\ Num(accounts[c].disputing) # 0

\* t is a dispute, resolve or chargeback that references an Invalid
\* adjustment of its own client.
RefersInvalid(t) ==
    /\ t.operation \in UpdateOperations
    /\ t.id \in DOMAIN adjustments
    /\ adjustments[t.id].account_id = t.client_id
    /\ adjustments[t.id].state = "Invalid"

\* C21: the 'invalid transaction' rejection is never the reported outcome:
\* in every reachable state the account that owns an Invalid adjustment is
\* frozen, no call has returned or can return 'invalid transaction', and
\* every dispute, resolve or chargeback that references an Invalid
\* adjustment with the matching client is rejected as an attempt on a
\* frozen account, with nothing changed.
C21_InvalidNeverReported ==
    /\ \A id \in DOMAIN adjustments :
            adjustments[id].state = "Invalid" => Frozen(adjustments[id].account_id)
    /\ last.res # ErrInvalid
    /\ \A t \in WideTransactions :
            /\ After(t).res # ErrInvalid
            /\ RefersInvalid(t) =>
                    /\ After(t).res = ErrFrozen
                    /\ RejectedUnchanged(t)

\* A dispute that referenced an Invalid adjustment was just refused as an
\* attempt on a frozen account: every adjustment in the ledger is Invalid.
C21_Witness ==
    /\ last.operation = "Dispute"
    /\ last.res = ErrFrozen
    /\ DOMAIN adjustments # {}
    /\ \A id \in DOMAIN adjustments : adjustments[id].state = "Invalid"

====
